---------------------------- MODULE Spec2Model ----------------------------
(***************************************************************************)
(* Permutation feature importance of lynxes (Skater):                      *)
(* FeatureImportance.feature_importance and plot_feature_importance of     *)
(* src/lynxes/core/global_interpretation/feature_importance.py.            *)
(*                                                                         *)
(* A dataset is a function column -> row -> value.  A model is a predict   *)
(* function with a list of output names.  Scores are real numbers; they    *)
(* are kept exactly, as sums of square roots of integers (a bag maps a     *)
(* squarefree radicand s to the integer coefficient of sqrt(s)), so that   *)
(* "equal", "zero" and "sums to one" mean what they mean for reals.        *)
(***************************************************************************)
EXTENDS Integers, Sequences, FiniteSets, Bags, TLC

\* ------------------------------------------------------------------ bounds

\* Rows of the dataset.
NRows == 2

\* Fixed-point precision used only to ORDER two different sums of square
\* roots (each root is bracketed between k/Prec and (k+1)/Prec).
Prec == 1000

Rows == 1 .. NRows

\* Values a cell of the dataset may hold.
Values == {0, 1}

\* self.data_set.feature_ids, in order.
feature_ids == <<"f1", "f2">>

FeatureSet == {feature_ids[i] : i \in DOMAIN feature_ids}

\* modelinstance.target_names, in order.
target_names == <<"t1", "t2">>

TargetSet == {target_names[i] : i \in DOMAIN target_names}

\* A label that is not an output of the model.
UnknownLabel == "zz"

\* filter_classes is None, or a list of labels [labels |-> S].
None == [none |-> TRUE]

\* The values filter_classes is called with.
Filters ==
    {None} \cup {[labels |-> S] : S \in SUBSET (TargetSet \cup {UnknownLabel})}

\* Python's truth value of filter_classes: None and the empty list are false.
Truthy(filter) == filter # None /\ filter.labels # {}

\* A variable that holds nothing yet.
Unset == [unset |-> TRUE]

DataSets == [FeatureSet -> [Rows -> Values]]

\* ------------------------------------------------------- the model's predict

\* The models: output t of a row is the parity of the row's values in the
\* columns Deps[t].  Deps[t] = {} is an output that ignores every column, a
\* singleton an output that copies a column, two columns an interaction.
Models == [TargetSet -> SUBSET FeatureSet]

RECURSIVE SumOver(_, _)
SumOver(f, S) ==
    IF S = {} THEN 0
    ELSE LET x == CHOOSE y \in S : TRUE
         IN f[x] + SumOver(f, S \ {x})

\* modelinstance.predict(data): one row of outputs per row of data.
PredictOn(model, targets, data) ==
    [i \in Rows |->
        [t \in targets |->
            SumOver([c \in FeatureSet |-> data[c][i]], model[t]) % 2]]

Predict(model, data) == PredictOn(model, TargetSet, data)

\* ModelType._filter_outputs(predictions, target_names, filter_classes):
\* the columns of predictions named in filter_classes.
FilterOutputs(predictions, names, filter) ==
    [i \in DOMAIN predictions |->
        [t \in {u \in names : u \in filter.labels} |-> predictions[i][t]]]

\* predict_wrapper without its filter_classes branch.
PredictWrapperIgnoringFilter(predictions, filter) == predictions

\* The inner predict_wrapper of feature_importance.
predict_wrapper(predictions, filter) ==
    IF Truthy(filter)
    THEN FilterOutputs(predictions, TargetSet, filter)
    ELSE predictions

\* The assertion left out.
FilterAcceptedAlways(filter) == TRUE

\* The assertion at the head of feature_importance: TRUE when it passes.
FilterAccepted(filter) ==
    IF Truthy(filter)
    THEN \A i \in filter.labels : i \in TargetSet
    ELSE TRUE

\* ------------------------------------------------------------ the dataset

\* DataManager(data, feature_names, index): a dataset of its own holding the
\* values of data.
DataManager(data) == [c \in DOMAIN data |-> [i \in DOMAIN data[c] |-> data[c][i]]]

\* DataManager.__setitem__: column c of data replaced by vals.
SetColumn(data, c, vals) == [data EXCEPT ![c] = vals]

\* data_set.generate_column_sample(c, n_samples=n, method='random-choice'):
\* the possible results, n values drawn with replacement from column c.
GenerateColumnSample(data, c, n) ==
    [1 .. n -> {data[c][i] : i \in DOMAIN data[c]}]

\* predictions.shape[0]
Shape0(predictions) == Cardinality(DOMAIN predictions)

\* ------------------------------------------------- exact sums of square roots

Zero == EmptyBag

IsZeroSurd(b) == BagToSet(b) = {}

\* sqrt(v) for an integer v >= 0, as a * sqrt(s) with s squarefree.
Sqrt(v) ==
    IF v = 0 THEN Zero
    ELSE LET a == CHOOSE k \in 1 .. v :
                    /\ v % (k * k) = 0
                    /\ \A m \in (k + 1) .. v : v % (m * m) # 0
         IN (v \div (a * a)) :> a

\* n * b
Scale(b, n) == IF n = 0 THEN Zero ELSE [s \in BagToSet(b) |-> n * b[s]]

\* floor(sqrt(v)), by bisection on the bits of the root.
RECURSIVE ISqrtBits(_, _, _)
ISqrtBits(v, r, bit) ==
    IF bit = 0 THEN r
    ELSE IF (r + bit) * (r + bit) <= v
         THEN ISqrtBits(v, r + bit, bit \div 2)
         ELSE ISqrtBits(v, r, bit \div 2)

ISqrt(v) == ISqrtBits(v, 0, 16384)

\* floor(Prec * a * sqrt(s)) summed over the terms: a lower bound of Prec * b.
SurdLo(b) ==
    SumOver([s \in BagToSet(b) |-> ISqrt(b[s] * b[s] * s * Prec * Prec)],
            BagToSet(b))

\* An upper bound of Prec * b, equal to the lower bound when b is an integer.
SurdHi(b) ==
    SumOver([s \in BagToSet(b) |->
                LET r == ISqrt(b[s] * b[s] * s * Prec * Prec)
                IN IF r * r = b[s] * b[s] * s * Prec * Prec THEN r ELSE r + 1],
            BagToSet(b))

\* a < b and a <= b as real numbers (square roots of different squarefree
\* numbers are linearly independent, so a = b only for equal bags).
SurdLess(a, b) == a # b /\ SurdHi(a) <= SurdLo(b)

SurdLeq(a, b) == a = b \/ SurdLess(a, b)

\* The order is decided for a and b at the precision Prec.
Decided(a, b) == a = b \/ SurdLess(a, b) \/ SurdLess(b, a)

\* ---------------------------------------------------------------- numbers

\* A raw importance is num / den, num a sum of square roots and den a
\* positive integer; a score is num / den with both sums of square roots.
NaN == [nan |-> TRUE]

\* np.std(changes, axis=0) for the measured output t, times the number of
\* rows n: sqrt(n * sum(x^2) - sum(x)^2).
StdTimesN(changes, t) ==
    LET R  == DOMAIN changes
        n  == Cardinality(R)
        s1 == SumOver([i \in R |-> changes[i][t]], R)
        s2 == SumOver([i \in R |-> changes[i][t] * changes[i][t]], R)
    IN Sqrt(n * s2 - s1 * s1)

RECURSIVE SurdSum(_, _)
SurdSum(f, S) ==
    IF S = {} THEN Zero
    ELSE LET x == CHOOSE y \in S : TRUE
         IN f[x] (+) SurdSum(f, S \ {x})

\* new_predictions - original_predictions
Minus(new, orig) ==
    [i \in DOMAIN new |-> [t \in DOMAIN new[i] |-> new[i][t] - orig[i][t]]]

MeasuredOutputs(predictions) ==
    UNION {DOMAIN predictions[i] : i \in DOMAIN predictions}

\* np.mean(np.std(changes_in_predictions, axis=0)); NaN over no outputs.
Importance(changes) ==
    LET T == MeasuredOutputs(changes)
    IN IF T = {} THEN NaN
       ELSE [num |-> SurdSum([t \in T |-> StdTimesN(changes, t)], T),
             den |-> Cardinality(DOMAIN changes) * Cardinality(T)]

\* x < y for two raw importances (never for a NaN).
RawLess(x, y) ==
    /\ x # NaN
    /\ y # NaN
    /\ SurdLess(Scale(x.num, y.den), Scale(y.num, x.den))

\* x + y for two raw importances.
RawAdd(x, y) ==
    IF x = NaN \/ y = NaN THEN NaN
    ELSE IF x.den = y.den THEN [num |-> x.num (+) y.num, den |-> x.den]
    ELSE [num |-> Scale(x.num, y.den) (+) Scale(y.num, x.den),
          den |-> x.den * y.den]

RECURSIVE RawSum(_, _)
RawSum(imp, S) ==
    IF S = {} THEN [num |-> Zero, den |-> 1]
    ELSE LET c == CHOOSE y \in S : TRUE
         IN IF S = {c} THEN imp[c] ELSE RawAdd(imp[c], RawSum(imp, S \ {c}))

\* x / total for a raw importance and the raw total: 0 / 0 is NaN.
Divide(x, total) ==
    IF x = NaN \/ total = NaN THEN NaN
    ELSE IF IsZeroSurd(total.num) THEN NaN
    ELSE IF x.den = total.den THEN [num |-> x.num, den |-> total.num]
    ELSE [num |-> Scale(x.num, total.den), den |-> Scale(total.num, x.den)]

\* pd.Series(importances).sort_values(): the keys in ascending order of
\* their values, keys of equal value in the order of insertion (the order
\* of feature_ids).
Position(c) == CHOOSE i \in DOMAIN feature_ids : feature_ids[i] = c

SortValues(imp) ==
    LET K == DOMAIN imp
    IN CHOOSE idx \in [1 .. Cardinality(K) -> K] :
        /\ \A i, j \in DOMAIN idx : i # j => idx[i] # idx[j]
        /\ \A i, j \in DOMAIN idx :
              i < j => /\ ~RawLess(imp[idx[j]], imp[idx[i]])
                       /\ (~RawLess(imp[idx[i]], imp[idx[j]])
                              => Position(idx[i]) < Position(idx[j]))

\* importances / importances.sum()
Normalize(imp, index) ==
    [index  |-> index,
     values |-> [c \in DOMAIN imp |-> Divide(imp[c], RawSum(imp, DOMAIN imp))]]

\* ------------------------------------------------------------------ state

VARIABLES
    data_set,              \* self.data_set.data
    modelinstance,         \* the model: for each output, the columns it reads
    pc,                    \* idle, loop, perturbed, plot, returned, raised
    caller,                \* who entered feature_importance: direct or plot
    filter_classes,        \* the argument of feature_importance
    original_predictions,
    copy_of_data_set,
    fidx,                  \* position of the for loop in feature_ids
    importances,           \* the dict of raw importances
    result,                \* the Series returned by feature_importance
    raised,                \* the exception the call ended with
    matplotlib,            \* the import of pyplot: ok, ImportError, RuntimeError
    plot_return,           \* (f, ax) returned by plot_feature_importance
    ax_given,              \* the argument ax of plot_feature_importance
    predict_calls,         \* the arguments of modelinstance.predict, in order
    predict_returns,       \* what modelinstance.predict returned, in order
    samples,               \* what generate_column_sample returned, per column
    data_at_call,          \* self.data_set.data when the call started
    previous,              \* filter, samples and result of the previous call
    calls_left             \* calls still to be made

vars == <<data_set, modelinstance, pc, caller, filter_classes,
          original_predictions, copy_of_data_set, fidx, importances, result,
          raised, matplotlib, plot_return, ax_given, predict_calls,
          predict_returns, samples, data_at_call, previous, calls_left>>

\* The local state of one call.
locals == <<original_predictions, copy_of_data_set, fidx, importances,
            predict_calls, predict_returns>>

\* An existing subplot, with the figure it belongs to.
Axes == {[name |-> "ax1", figure |-> "figA"], [name |-> "ax2", figure |-> "figB"]}

\* pyplot.subplots(1): a new figure and a subplot of it.
Subplots == [name |-> "ax0", figure |-> "fig0"]

Setup ==
    /\ data_set \in DataSets
    /\ modelinstance \in Models
    /\ pc = "idle"
    /\ caller = "nobody"
    /\ filter_classes = Unset
    /\ original_predictions = Unset
    /\ copy_of_data_set = Unset
    /\ fidx = 0
    /\ importances = <<>>
    /\ result = Unset
    /\ raised = "none"
    /\ matplotlib = "not imported"
    /\ plot_return = Unset
    /\ ax_given = Unset
    /\ predict_calls = <<>>
    /\ predict_returns = <<>>
    /\ samples = <<>>
    /\ data_at_call = Unset
    /\ previous = Unset

\* One call on a freshly loaded interpreter.
Init == Setup /\ calls_left = 1

\* Two calls in a row, the second with the random source seeded as the first.
InitRepeat == Setup /\ calls_left = 2

\* ---------------------------------------------------------------- actions

\* feature_importance up to the loop: the assertion on filter_classes, the
\* predictions of the original data, the working copy.
Enter(who, filter) ==
    /\ pc = "idle"
    /\ calls_left > 0
    /\ previous # Unset => filter = previous.filter
    /\ calls_left' = calls_left - 1
    /\ caller' = who
    /\ filter_classes' = filter
    /\ data_at_call' = data_set
    /\ IF ~FilterAccepted(filter)
       THEN /\ pc' = "raised"
            /\ raised' = "AssertionError"
            /\ UNCHANGED locals
       ELSE /\ original_predictions' =
                  predict_wrapper(Predict(modelinstance, data_set), filter)
            /\ predict_calls' = <<data_set>>
            /\ predict_returns' = <<Predict(modelinstance, data_set)>>
            /\ copy_of_data_set' = DataManager(data_set)
            /\ fidx' = 1
            /\ importances' = <<>>
            /\ pc' = "loop"
            /\ raised' = "none"
    /\ UNCHANGED <<data_set, modelinstance, result, plot_return, ax_given,
                   samples, previous>>

\* interpreter.feature_importance.feature_importance(model, filter_classes)
Call(filter) ==
    /\ Enter("direct", filter)
    /\ UNCHANGED matplotlib

\* One except clause for both errors.
ImportHandlerOneClause(error) == "MatplotlibUnavailableError"

\* The exception plot_feature_importance raises when the import of pyplot
\* raised error.
ImportHandler(error) ==
    IF error = "ImportError" THEN "MatplotlibUnavailableError"
    ELSE "MatplotlibDisplayError"

\* plot_feature_importance up to its call of feature_importance.
PlotCall(import, filter) ==
    /\ pc = "idle"
    /\ calls_left > 0
    /\ matplotlib' = import
    /\ IF import # "ok"
       THEN /\ pc' = "raised"
            /\ raised' = ImportHandler(import)
            /\ calls_left' = calls_left - 1
            /\ UNCHANGED <<data_set, modelinstance, caller, filter_classes,
                           result, plot_return, ax_given, samples,
                           data_at_call, previous>>
            /\ UNCHANGED locals
       ELSE Enter("plot", filter)

\* One pass of the loop up to the importance of the column: sample the
\* column, write the sample to the copy, predict, measure.
Perturb(s) ==
    /\ pc = "loop"
    /\ fidx <= Len(feature_ids)
    /\ LET feature_id == feature_ids[fidx]
           n == Shape0(original_predictions)
       IN /\ s \in GenerateColumnSample(data_set, feature_id, n)
          /\ previous # Unset => s = previous.samples[feature_id]
          /\ LET perturbed == SetColumn(copy_of_data_set, feature_id, s)
                 returned == Predict(modelinstance, perturbed)
                 new_predictions == predict_wrapper(returned, filter_classes)
                 changes_in_predictions ==
                     Minus(new_predictions, original_predictions)
             IN /\ copy_of_data_set' = perturbed
                /\ predict_calls' = Append(predict_calls, perturbed)
                /\ predict_returns' = Append(predict_returns, returned)
                /\ importances' =
                      importances @@
                      (feature_id :> Importance(changes_in_predictions))
          /\ samples' = samples @@ (feature_id :> s)
    /\ pc' = "perturbed"
    /\ UNCHANGED <<data_set, modelinstance, caller, filter_classes,
                   original_predictions, fidx, result, raised, matplotlib,
                   plot_return, ax_given, data_at_call, previous, calls_left>>

\* "reset copy" left out.
ResetSkipped ==
    /\ pc = "perturbed"
    /\ fidx' = fidx + 1
    /\ pc' = "loop"
    /\ UNCHANGED <<data_set, copy_of_data_set, modelinstance, caller,
                   filter_classes, original_predictions, importances, result,
                   raised, matplotlib, plot_return, ax_given, predict_calls,
                   predict_returns, samples, data_at_call, previous,
                   calls_left>>

\* "reset copy" written the wrong way round:
\* self.data_set[feature_id] = copy_of_data_set[feature_id].
ResetSwapped ==
    /\ pc = "perturbed"
    /\ data_set' = SetColumn(data_set, feature_ids[fidx],
                             copy_of_data_set[feature_ids[fidx]])
    /\ fidx' = fidx + 1
    /\ pc' = "loop"
    /\ UNCHANGED <<copy_of_data_set, modelinstance, caller,
                   filter_classes, original_predictions, importances, result,
                   raised, matplotlib, plot_return, ax_given, predict_calls,
                   predict_returns, samples, data_at_call, previous,
                   calls_left>>

\* The end of a pass of the loop:
\* copy_of_data_set[feature_id] = self.data_set[feature_id].
Reset ==
    /\ pc = "perturbed"
    /\ copy_of_data_set' = SetColumn(copy_of_data_set, feature_ids[fidx],
                                     data_set[feature_ids[fidx]])
    /\ fidx' = fidx + 1
    /\ pc' = "loop"
    /\ UNCHANGED <<data_set, modelinstance, caller, filter_classes,
                   original_predictions, importances, result, raised,
                   matplotlib, plot_return, ax_given, predict_calls,
                   predict_returns, samples, data_at_call, previous,
                   calls_left>>

\* After the loop: sort, normalize, return.
Finish ==
    /\ pc = "loop"
    /\ fidx > Len(feature_ids)
    /\ result' = Normalize(importances, SortValues(importances))
    /\ pc' = IF caller = "plot" THEN "plot" ELSE "returned"
    /\ UNCHANGED <<data_set, modelinstance, caller, filter_classes, raised,
                   matplotlib, plot_return, ax_given, samples, data_at_call,
                   previous, calls_left>>
    /\ UNCHANGED locals

\* The figure and the subplot plot_feature_importance draws on and returns.
\* The argument ax is read here for the first time, so it is chosen here.
Draw(ax) ==
    IF ax = None THEN <<Subplots.figure, Subplots>>
    ELSE <<ax.figure, ax>>

\* plot_feature_importance after feature_importance returned.
Plot(ax) ==
    /\ pc = "plot"
    /\ ax_given' = ax
    /\ plot_return' = Draw(ax)
    /\ pc' = "returned"
    /\ UNCHANGED <<data_set, modelinstance, caller, filter_classes, result,
                   raised, matplotlib, samples, data_at_call, previous,
                   calls_left>>
    /\ UNCHANGED locals

\* The caller keeps the result and calls again, the random source seeded as
\* before.
Again ==
    /\ pc = "returned"
    /\ caller = "direct"
    /\ calls_left > 0
    /\ previous' = [filter |-> filter_classes, samples |-> samples,
                    result |-> result]
    /\ pc' = "idle"
    /\ caller' = "nobody"
    /\ filter_classes' = Unset
    /\ original_predictions' = Unset
    /\ copy_of_data_set' = Unset
    /\ fidx' = 0
    /\ importances' = <<>>
    /\ result' = Unset
    /\ predict_calls' = <<>>
    /\ predict_returns' = <<>>
    /\ samples' = <<>>
    /\ data_at_call' = Unset
    /\ UNCHANGED <<data_set, modelinstance, raised, matplotlib, plot_return,
                   ax_given, calls_left>>

\* The estimator called directly.
Next ==
    \/ \E filter \in Filters : Call(filter)
    \/ \E s \in [Rows -> Values] : Perturb(s)
    \/ Reset
    \/ Finish

Spec == Init /\ [][Next]_vars

\* The estimator called through plot_feature_importance.
NextPlot ==
    \/ \E import \in {"ok", "ImportError", "RuntimeError"}, filter \in Filters :
          PlotCall(import, filter)
    \/ \E s \in [Rows -> Values] : Perturb(s)
    \/ Reset
    \/ Finish
    \/ \E ax \in Axes \cup {None} : Plot(ax)

SpecPlot == Init /\ [][NextPlot]_vars

\* The estimator called twice with the same seed.
NextRepeat ==
    \/ \E filter \in Filters : Call(filter)
    \/ \E s \in [Rows -> Values] : Perturb(s)
    \/ Reset
    \/ Finish
    \/ Again

SpecRepeat == InitRepeat /\ [][NextRepeat]_vars

\* ------------------------------------------------------ reading the result

Returned == pc = "returned" /\ result # Unset

\* The score x is the rational p / q.
ScoreIs(x, p, q) == x # NaN /\ Scale(x.num, q) = Scale(x.den, p)

ScoreIsZero(x) == x # NaN /\ IsZeroSurd(x.num)

ScoreIsPositive(x) == x # NaN /\ ~IsZeroSurd(x.num)

\* 0 <= x <= 1
ScoreInUnitInterval(x) == x # NaN /\ SurdLeq(x.num, x.den)

\* x <= y for two scores over the same denominator.
ScoreLeq(x, y) ==
    /\ x # NaN
    /\ y # NaN
    /\ x.den = y.den
    /\ SurdLeq(x.num, y.num)

\* The scores of r are numbers and add up to 1.
ScoresSumToOne(r) ==
    LET K == DOMAIN r.values
    IN /\ \A c \in K : r.values[c] # NaN
       /\ \E c \in K :
            /\ \A d \in K : r.values[d].den = r.values[c].den
            /\ SurdSum([d \in K |-> r.values[d].num], K) = r.values[c].den

\* The predictions measured in pass k of the loop (k = 0: the original ones).
Measured(k) == predict_wrapper(predict_returns[k + 1], filter_classes)

\* The model's sanity: every comparison the sort makes is decided at Prec.
OrderDecided ==
    Returned =>
        \A c, d \in DOMAIN importances :
            importances[c] # NaN /\ importances[d] # NaN =>
                Decided(Scale(importances[c].num, importances[d].den),
                        Scale(importances[d].num, importances[c].den))

\* ------------------------------------------------------------------ claims

\* C1: the scores returned by feature_importance sum to 1, for every
\* dataset, model and accepted filter_classes, also when no perturbation
\* changes any prediction.
C1_ScoresSumToOne == Returned => ScoresSumToOne(result)

\* Where C1 does hold: some column has a raw importance that is not 0.
C1_SumToOneWhenSomeSpread ==
    (Returned /\ \E c \in DOMAIN importances : ~IsZeroSurd(importances[c].num))
        => ScoresSumToOne(result)

\* Where C1 fails: every raw importance is 0 and every score is NaN.
C1_AllZeroGivesNaN ==
    (Returned /\ \A c \in DOMAIN importances : IsZeroSurd(importances[c].num))
        => \A c \in DOMAIN result.values : result.values[c] = NaN

\* C2: for a model whose outputs read no column at all, every column gets
\* the same well-defined score, 1 / (number of columns).
C2_InsensitiveModelEqualScores ==
    (Returned /\ \A t \in TargetSet : modelinstance[t] = {})
        => \A c \in FeatureSet :
              ScoreIs(result.values[c], 1, Len(feature_ids))

\* C7: the result holds one score for each column of feature_ids and no
\* other key, and each score is a number between 0 and 1.
C7_OneScorePerColumnInUnitInterval ==
    Returned =>
        /\ DOMAIN result.values = FeatureSet
        /\ Len(result.index) = Len(feature_ids)
        /\ {result.index[i] : i \in DOMAIN result.index} = FeatureSet
        /\ \A c \in FeatureSet : ScoreInUnitInterval(result.values[c])

\* The part of C7 about the keys alone.
C7_OneKeyPerColumn ==
    Returned =>
        /\ DOMAIN result.values = FeatureSet
        /\ Len(result.index) = Len(feature_ids)
        /\ {result.index[i] : i \in DOMAIN result.index} = FeatureSet

\* Column c was perturbed without any measured prediction changing.
NeverChanged(c) == Measured(Position(c)) = Measured(0)

\* c comes before d in the returned Series.
Before(r, c, d) ==
    \E i, j \in DOMAIN r.index : i < j /\ r.index[i] = c /\ r.index[j] = d

\* The returned scores are in ascending order.
Ascending(r) ==
    \A i, j \in DOMAIN r.index :
        i < j => ScoreLeq(r.values[r.index[i]], r.values[r.index[j]])

\* C10: a column whose perturbation changes no measured prediction, while
\* the perturbation of another column changes one, has score 0, the lowest
\* score, and comes before every column of positive score in the ascending
\* result.
C10_IgnoredColumnScoresZero ==
    Returned =>
        \A c \in FeatureSet :
            (NeverChanged(c) /\ \E d \in FeatureSet \ {c} : ~NeverChanged(d))
                => /\ ScoreIsZero(result.values[c])
                   /\ \A d \in FeatureSet :
                         ScoreLeq(result.values[c], result.values[d])
                   /\ Ascending(result)
                   /\ \A d \in FeatureSet :
                         ScoreIsPositive(result.values[d])
                             => Before(result, c, d)

\* Where C10 does hold: the other column's raw importance is not 0.
C10_HoldsWhenSomeSpread ==
    Returned =>
        \A c \in FeatureSet :
            (NeverChanged(c) /\ \E d \in FeatureSet \ {c} :
                                   ~IsZeroSurd(importances[d].num))
                => /\ ScoreIsZero(result.values[c])
                   /\ \A d \in FeatureSet :
                         ScoreLeq(result.values[c], result.values[d])
                   /\ Ascending(result)
                   /\ \A d \in FeatureSet :
                         ScoreIsPositive(result.values[d])
                             => Before(result, c, d)

\* filter_classes names a label that is not an output of the model.
NamesUnknownLabel(filter) ==
    filter # None /\ \E l \in filter.labels : l \notin TargetSet

\* C3: a filter_classes with a label outside target_names ends the call with
\* an assertion error before predict is called, a column is sampled or the
\* copy of the dataset exists; a filter_classes within target_names raises
\* no assertion error.
C3_UnknownLabelFailsFirst ==
    filter_classes # Unset =>
        IF NamesUnknownLabel(filter_classes)
        THEN /\ pc = "raised"
             /\ raised = "AssertionError"
             /\ predict_calls = <<>>
             /\ samples = <<>>
             /\ copy_of_data_set = Unset
             /\ result = Unset
        ELSE raised # "AssertionError" /\ pc # "raised"

\* A call with a known and an unknown label has failed.
C3_Witness ==
    /\ raised = "AssertionError"
    /\ filter_classes # Unset
    /\ UnknownLabel \in filter_classes.labels
    /\ filter_classes.labels \cap TargetSet # {}

\* The arguments predict is called with for data and the samples smp: the
\* data, then for each column the data with that column replaced.
ExpectedCalls(data, smp) ==
    <<data>> \o [k \in 1 .. Len(feature_ids) |->
                    SetColumn(data, feature_ids[k], smp[feature_ids[k]])]

\* The unfiltered computation on a model whose outputs are just targets.
Unfiltered(model, targets, data, smp) ==
    LET orig == PredictOn(model, targets, data)
        imp  == [c \in FeatureSet |->
                    Importance(Minus(PredictOn(model, targets,
                                               SetColumn(data, c, smp[c])),
                                     orig))]
    IN Normalize(imp, SortValues(imp))

\* The outputs filter_classes asks to measure.
Asked(filter) == IF Truthy(filter) THEN filter.labels ELSE TargetSet

\* C4: filter_classes changes only which outputs are measured: predict gets
\* the arguments it gets without a filter, in the same order, the same
\* columns are scored, and the result is that of the unfiltered computation
\* on a model with just the outputs named; an empty filter_classes measures
\* all outputs, as None does.
C4_FilterRestrictsOutputsOnly ==
    Returned =>
        /\ predict_calls = ExpectedCalls(data_at_call, samples)
        /\ DOMAIN result.values = FeatureSet
        /\ result = Unfiltered(modelinstance, Asked(filter_classes),
                               data_at_call, samples)
        /\ filter_classes = [labels |-> {}] =>
              result = Unfiltered(modelinstance, TargetSet, data_at_call,
                                  samples)

\* A call measuring one output returned scores that the computation over all
\* outputs would not have returned.
C4_Witness ==
    /\ Returned
    /\ Truthy(filter_classes)
    /\ filter_classes.labels # TargetSet
    /\ \E c \in FeatureSet : ScoreIsPositive(result.values[c])
    /\ result # Unfiltered(modelinstance, TargetSet, data_at_call, samples)

C6_PlotFailsDistinctlyOrReturnsAx ==
    /\ matplotlib = "ImportError" =>
          /\ pc = "raised"
          /\ raised = "MatplotlibUnavailableError"
          /\ predict_calls = <<>>
          /\ result = Unset
    /\ matplotlib = "RuntimeError" =>
          /\ pc = "raised"
          /\ raised = "MatplotlibDisplayError"
          /\ raised # "MatplotlibUnavailableError"
          /\ predict_calls = <<>>
          /\ result = Unset
    /\ (pc = "returned" /\ caller = "plot" /\ ax_given \in Axes) =>
          /\ matplotlib = "ok"
          /\ plot_return = <<ax_given.figure, ax_given>>

\* A plot on a given ax returned.
C6_Witness ==
    /\ pc = "returned"
    /\ caller = "plot"
    /\ ax_given \in Axes
    /\ plot_return[2] = ax_given
    /\ Len(predict_calls) = Len(feature_ids) + 1

\* C8: the first predict call gets the unperturbed dataset, and the call of
\* the pass for column c gets a dataset with the rows of the original that
\* differs from the original in column c only.
C8_OneColumnAtATime ==
    \A k \in DOMAIN predict_calls :
        IF k = 1 THEN predict_calls[k] = data_at_call
        ELSE /\ DOMAIN predict_calls[k] = DOMAIN data_at_call
             /\ \A d \in FeatureSet :
                   /\ DOMAIN predict_calls[k][d] = DOMAIN data_at_call[d]
                   /\ d # feature_ids[k - 1] =>
                         predict_calls[k][d] = data_at_call[d]

\* Both columns were perturbed, each to values other than its own.
C8_Witness ==
    /\ Len(predict_calls) = 3
    /\ predict_calls[2][feature_ids[1]] # data_at_call[feature_ids[1]]
    /\ predict_calls[3][feature_ids[2]] # data_at_call[feature_ids[2]]

\* C9: during the call and after it self.data_set holds the values it held
\* before the call; the sampled values are written to the copy only, and
\* after "reset copy" the copy holds the original values again.
C9_DataSetUnchanged ==
    data_at_call # Unset =>
        /\ data_set = data_at_call
        /\ (copy_of_data_set # Unset /\ pc # "perturbed") =>
              copy_of_data_set = data_at_call
        /\ pc = "perturbed" =>
              /\ copy_of_data_set[feature_ids[fidx]] =
                    samples[feature_ids[fidx]]
              /\ \A d \in FeatureSet \ {feature_ids[fidx]} :
                    copy_of_data_set[d] = data_at_call[d]

\* The call returned after writing, to each column of the copy, values other
\* than the column's own.
C9_Witness ==
    /\ Returned
    /\ \A c \in FeatureSet : samples[c] # data_set[c]
    /\ copy_of_data_set = data_set

=============================================================================
